---------------------------- MODULE Spec2Model ----------------------------
(***************************************************************************)
(* A model of src/server.js: the todo HTTP service over one MySQL table.   *)
(*                                                                         *)
(* The process is single-threaded; every route handler runs synchronously  *)
(* up to its one `await pool.query(...)`, the statement executes           *)
(* atomically in the database, and the rest of the handler only sends the  *)
(* response.  A handler is therefore one action, taken at the instant its  *)
(* statement executes.  initDB has two awaits and a timer, so it is three  *)
(* actions.  The database (reachability, the table, its rows, the          *)
(* AUTO_INCREMENT counter, CURRENT_TIMESTAMP) is part of the state.        *)
(*                                                                         *)
(* Modelled as the libraries behave under their defaults: express.json()   *)
(* hands the handler an object body; mysql2 connects with the FOUND_ROWS   *)
(* flag, so affectedRows of an UPDATE counts matched rows; MySQL runs in   *)
(* its default strict sql_mode.  Titles stay under the VARCHAR(255) width  *)
(* and `completed` is a JSON scalar (boolean, null, string).               *)
(***************************************************************************)
EXTENDS Integers, Sequences, FiniteSets

VARIABLES
  running,      \* the node process is up (until SIGTERM / SIGINT)
  dbMode,       \* "down": unreachable; "denied": connects, statements on todos fail; "ok"
  tableExists,  \* CREATE TABLE IF NOT EXISTS todos has succeeded
  todos,        \* the rows of table todos
  nextId,       \* the table's AUTO_INCREMENT counter
  clock,        \* CURRENT_TIMESTAMP of the database server
  initAwait,    \* initDB invocations suspended at each await
  timers,       \* pending setTimeout(initDB, 5000) timers
  leaked,       \* pool connections checked out and never released
  last          \* the last request handled and every response sent for it

vars == <<running, dbMode, tableExists, todos, nextId, clock, initAwait, timers, leaked, last>>

dbVars == <<tableExists, todos, nextId>>
initVars == <<initAwait, timers, leaked>>

---------------------------------------------------------------------------
(* Bounds of the model *)

MaxId == 2
MaxClock == 1

(* Program constants *)

ConnectionLimit == 10

---------------------------------------------------------------------------
(* JSON values of a request body *)

Undefined == [type |-> "undefined"]
Null == [type |-> "null"]
JBool(b) == [type |-> "boolean", b |-> b]
JNum(n) == [type |-> "number", n |-> n]
JStr(s) == [type |-> "string", s |-> s]

WhiteSpace == {" ", "\t"}

TitleInputs ==
  { Undefined, Null, JNum(5),
    JStr(<<>>), JStr(<<"\t", " ">>),
    JStr(<<" ", "a", "\t">>), JStr(<<"a", " ", "b", " ">>) }

CompletedInputs == { Undefined, Null, JBool(TRUE), JBool(FALSE), JStr(<<"x">>) }

Ids == 1..MaxId

(* JavaScript: !v *)
Falsy(v) ==
  \/ v.type \in {"undefined", "null"}
  \/ v.type = "boolean" /\ ~v.b
  \/ v.type = "number" /\ v.n = 0
  \/ v.type = "string" /\ v.s = <<>>

IsString(v) == v.type = "string"

(* String.prototype.trim *)
RECURSIVE TrimStart(_)
TrimStart(s) ==
  IF s # <<>> /\ Head(s) \in WhiteSpace THEN TrimStart(Tail(s)) ELSE s

RECURSIVE TrimEnd(_)
TrimEnd(s) ==
  IF s # <<>> /\ s[Len(s)] \in WhiteSpace THEN TrimEnd(SubSeq(s, 1, Len(s) - 1)) ELSE s

(* Variants of Trim: trimStart() or trimEnd() in place of trim() *)
TrimLeadingOnly(s) == TrimStart(s)

TrimTrailingOnly(s) == TrimEnd(s)

Trim(s) == TrimEnd(TrimStart(s))

(* Variant of TitleRejected: !title alone *)
TitleRejectedUntrimmed(title) == Falsy(title)

(* server.js:109  !title || title.trim() === '' ; evaluated left to right *)
TitleRejected(title) == Falsy(title) \/ (IsString(title) /\ Trim(title.s) = <<>>)

(* server.js:126  completed === undefined *)
CompletedRejected(completed) == completed = Undefined

---------------------------------------------------------------------------
(* The table *)

SqlNull == <<>>
SqlInt(n) == <<n>>
SqlFalse == SqlInt(0)
SqlTrue == SqlInt(1)

(* Variant of NewRow: the id is MAX(id) + 1 instead of the AUTO_INCREMENT counter *)
MaxIdOf(rows) == IF rows = {} THEN 0 ELSE CHOOSE m \in {r.id : r \in rows} : \A r \in rows : r.id <= m

NewRowAfterMaxId(title) ==
  [id |-> MaxIdOf(todos) + 1, title |-> title, completed |-> SqlFalse, created_at |-> clock]

(* INSERT INTO todos (title) VALUES (?): the other columns take their defaults *)
NewRow(title) ==
  [id |-> nextId, title |-> title, completed |-> SqlFalse, created_at |-> clock]

(* What a bound `completed` parameter stores in the BOOLEAN (TINYINT(1)) column *)
Storable(completed) == completed.type \in {"boolean", "null", "number"}

ToColumn(completed) ==
  CASE completed.type = "boolean" -> (IF completed.b THEN SqlTrue ELSE SqlFalse)
    [] completed.type = "number" -> SqlInt(completed.n)
    [] OTHER -> SqlNull

(* Variant of Matching: the UPDATE without its WHERE clause *)
MatchingEveryRow(id) == todos

(* WHERE id=? *)
Matching(id) == {r \in todos : r.id = id}

(* Variant of UpdateAffectedRows: rows changed, as without FOUND_ROWS *)
UpdateChangedRows(matched, changed) == Cardinality(changed)

(* result.affectedRows of the UPDATE: rows matched (FOUND_ROWS), changed or not *)
UpdateAffectedRows(matched, changed) == Cardinality(matched)

(* SELECT * FROM todos ORDER BY created_at DESC: every order the ties allow *)
OrderedByCreatedDesc(rows) ==
  LET n == Cardinality(rows) IN
  { s \in [1..n -> rows] :
      /\ \A i, j \in 1..n : i < j => s[i] # s[j] /\ s[i].created_at >= s[j].created_at }

---------------------------------------------------------------------------
(* The pool *)

CheckedOut == leaked + initAwait.query

(* every connection is leaked: getConnection / pool.query queue forever *)
PoolExhausted == leaked >= ConnectionLimit

PoolFree == CheckedOut < ConnectionLimit

(* a statement on table todos fails *)
QueryFails == dbMode # "ok" \/ ~tableExists

(* Variant of ProbeFails: the probe's rejection never reaches the handler *)
ProbeNotAwaited == FALSE

(* SELECT 1 fails *)
ProbeFails == dbMode = "down"

---------------------------------------------------------------------------
(* Responses *)

NoRequest == [kind |-> "none", sent |-> <<>>]

(* Variant of OnQueryError: no try/catch, the rejection ends the process *)
OnQueryErrorUncaught == [sent |-> <<>>, exits |-> TRUE]

(* the catch block of a handler: one response, status 500; the process goes on *)
OnQueryError == [sent |-> <<500>>, exits |-> FALSE]

Reply(kind, req, status) ==
  last' = [kind |-> kind, req |-> req, sent |-> <<status>>]

Caught(kind, req) ==
  /\ last' = [kind |-> kind, req |-> req, sent |-> OnQueryError.sent]
  /\ running' = ~OnQueryError.exits

(* the pool has no connection to give and never will: no response is sent *)
Hangs(kind, req) ==
  last' = [kind |-> kind, req |-> req, sent |-> <<>>]

---------------------------------------------------------------------------
(* The environments of the two specifications: a database that is either     *)
(* unreachable or working, and one that may also accept connections while    *)
(* refusing statements on todos (no privilege, no database selected).        *)
Modes == {"down", "ok"}
StartupModes == {"down", "denied", "ok"}

Boot ==
  /\ running = TRUE
  /\ tableExists = FALSE
  /\ todos = {}
  /\ nextId = 1
  /\ clock = 0
  /\ initAwait = [getConnection |-> 1, query |-> 0]   \* initDB() at server.js:60
  /\ timers = 0
  /\ leaked = 0
  /\ last = NoRequest

Init == Boot /\ dbMode \in Modes

StartupInit == Boot /\ dbMode \in StartupModes

---------------------------------------------------------------------------
(* initDB, server.js:35-58 *)

(* what the catch block schedules *)
RetriesScheduled == 1

InitGetConnection ==
  /\ running
  /\ initAwait.getConnection > 0
  /\ IF dbMode = "down"
       THEN \* getConnection rejects: catch, setTimeout(initDB, 5000)
            /\ ~PoolExhausted
            /\ initAwait' = [initAwait EXCEPT !.getConnection = @ - 1]
            /\ timers' = timers + RetriesScheduled
       ELSE /\ PoolFree
            /\ initAwait' = [getConnection |-> initAwait.getConnection - 1,
                             query |-> initAwait.query + 1]
            /\ timers' = timers
  /\ UNCHANGED <<running, dbMode, dbVars, clock, leaked, last>>

InitCreateTable ==
  /\ running
  /\ initAwait.query > 0
  /\ initAwait' = [initAwait EXCEPT !.query = @ - 1]
  /\ CASE dbMode = "ok" ->
            \* CREATE TABLE IF NOT EXISTS succeeds; connection.release()
            /\ tableExists' = TRUE
            /\ UNCHANGED <<timers, leaked>>
       [] dbMode = "denied" ->
            \* the statement is refused: catch; release() was skipped
            /\ leaked' = leaked + 1
            /\ timers' = timers + RetriesScheduled
            /\ UNCHANGED tableExists
       [] OTHER ->
            \* the connection broke: the pool drops it; catch
            /\ timers' = timers + RetriesScheduled
            /\ UNCHANGED <<tableExists, leaked>>
  /\ UNCHANGED <<running, dbMode, todos, nextId, clock, last>>

InitRetry ==
  /\ running
  /\ timers > 0
  /\ timers' = timers - 1
  /\ initAwait' = [initAwait EXCEPT !.getConnection = @ + 1]
  /\ UNCHANGED <<running, dbMode, dbVars, clock, leaked, last>>

---------------------------------------------------------------------------
(* The route handlers, server.js:95-199 *)

ListTodos ==
  /\ running
  /\ LET req == [path |-> "/api/todos"] IN
     IF PoolExhausted THEN Hangs("list", req) /\ UNCHANGED running
     ELSE /\ PoolFree
          /\ IF QueryFails THEN Caught("list", req)
             ELSE /\ \E body \in OrderedByCreatedDesc(todos) :
                       last' = [kind |-> "list", req |-> req, sent |-> <<200>>, body |-> body]
                  /\ UNCHANGED running
  /\ UNCHANGED <<dbMode, dbVars, clock, initVars>>

CreateTodo(title) ==
  /\ running
  /\ LET req == [title |-> title] IN
     IF TitleRejected(title)
       THEN Reply("create", req, 400) /\ UNCHANGED <<running, dbVars>>
     ELSE IF ~IsString(title)
       THEN \* title.trim is not a function: TypeError, caught
            Caught("create", req) /\ UNCHANGED dbVars
     ELSE IF PoolExhausted
       THEN Hangs("create", req) /\ UNCHANGED <<running, dbVars>>
     ELSE /\ PoolFree
          /\ IF QueryFails THEN Caught("create", req) /\ UNCHANGED dbVars
             ELSE /\ nextId <= MaxId
                  /\ todos' = todos \cup {NewRow(Trim(title.s))}
                  /\ nextId' = nextId + 1
                  /\ Reply("create", req, 201)
                  /\ UNCHANGED <<running, tableExists>>
  /\ UNCHANGED <<dbMode, clock, initVars>>

UpdateTodo(id, completed) ==
  /\ running
  /\ LET req == [id |-> id, completed |-> completed] IN
     IF CompletedRejected(completed)
       THEN Reply("update", req, 400) /\ UNCHANGED <<running, dbVars>>
     ELSE IF PoolExhausted
       THEN Hangs("update", req) /\ UNCHANGED <<running, dbVars>>
     ELSE /\ PoolFree
          /\ IF QueryFails \/ (Matching(id) # {} /\ ~Storable(completed))
               THEN Caught("update", req) /\ UNCHANGED dbVars
             ELSE LET matched == Matching(id)
                      changed == {r \in matched : r.completed # ToColumn(completed)}
                      affectedRows == UpdateAffectedRows(matched, changed)
                  IN /\ todos' = (todos \ matched) \cup
                                   {[r EXCEPT !.completed = ToColumn(completed)] : r \in matched}
                     /\ last' = [kind |-> "update", req |-> req,
                                 sent |-> <<IF affectedRows = 0 THEN 404 ELSE 200>>,
                                 changedRows |-> Cardinality(changed)]
                     /\ UNCHANGED <<running, tableExists, nextId>>
  /\ UNCHANGED <<dbMode, clock, initVars>>

DeleteTodo(id) ==
  /\ running
  /\ LET req == [id |-> id] IN
     IF PoolExhausted
       THEN Hangs("delete", req) /\ UNCHANGED <<running, dbVars>>
     ELSE /\ PoolFree
          /\ IF QueryFails THEN Caught("delete", req) /\ UNCHANGED dbVars
             ELSE LET matched == Matching(id)
                      affectedRows == Cardinality(matched)
                  IN /\ todos' = todos \ matched
                     /\ Reply("delete", req, IF affectedRows = 0 THEN 404 ELSE 200)
                     /\ UNCHANGED <<running, tableExists, nextId>>
  /\ UNCHANGED <<dbMode, clock, initVars>>

Health ==
  /\ running
  /\ Reply("health", [path |-> "/health"], 200)
  /\ UNCHANGED <<running, dbMode, dbVars, clock, initVars>>

DbActive ==
  /\ running
  /\ LET req == [path |-> "/dbactive"] IN
     IF PoolExhausted THEN Hangs("dbactive", req)
     ELSE /\ PoolFree
          /\ Reply("dbactive", req, IF ProbeFails THEN 503 ELSE 200)
  /\ UNCHANGED <<running, dbMode, dbVars, clock, initVars>>

---------------------------------------------------------------------------
(* SIGTERM / SIGINT, server.js:222-232: pool.end(), process.exit(0) *)
Shutdown ==
  /\ running
  /\ running' = FALSE
  /\ initAwait' = [getConnection |-> 0, query |-> 0]
  /\ timers' = 0
  /\ leaked' = 0
  /\ last' = NoRequest
  /\ UNCHANGED <<dbMode, dbVars, clock>>

(* The environment: the database server *)
SetDb(mode) ==
  /\ mode # dbMode
  /\ dbMode' = mode
  /\ UNCHANGED <<running, dbVars, clock, initVars, last>>

Tick ==
  /\ clock < MaxClock
  /\ clock' = clock + 1
  /\ UNCHANGED <<running, dbMode, dbVars, initVars, last>>

---------------------------------------------------------------------------
Next ==
  \/ InitGetConnection
  \/ InitCreateTable
  \/ InitRetry
  \/ ListTodos
  \/ \E title \in TitleInputs : CreateTodo(title)
  \/ \E id \in Ids, completed \in CompletedInputs : UpdateTodo(id, completed)
  \/ \E id \in Ids : DeleteTodo(id)
  \/ Health
  \/ DbActive
  \/ Shutdown
  \/ \E mode \in Modes : SetDb(mode)
  \/ Tick

Spec == Init /\ [][Next]_vars

(* Startup against a database that may refuse the CREATE TABLE, with the     *)
(* read-only requests.  The event loop runs every settled await and every    *)
(* expired timer, hence the weak fairness of initDB's steps.                 *)
StartupNext ==
  \/ InitGetConnection
  \/ InitCreateTable
  \/ InitRetry
  \/ ListTodos
  \/ Health
  \/ DbActive
  \/ \E mode \in StartupModes : SetDb(mode)
  \/ Tick

StartupSpec ==
  /\ StartupInit
  /\ [][StartupNext]_vars
  /\ WF_vars(InitGetConnection)
  /\ WF_vars(InitCreateTable)
  /\ WF_vars(InitRetry)

(* Types, and initDB's single thread of retries: at most one attempt or timer *)
TypeOK ==
  /\ running \in BOOLEAN
  /\ dbMode \in StartupModes
  /\ tableExists \in BOOLEAN
  /\ nextId \in 1..(MaxId + 1)
  /\ clock \in 0..MaxClock
  /\ leaked \in 0..ConnectionLimit
  /\ initAwait.getConnection + initAwait.query + timers <= 1

---------------------------------------------------------------------------
(* Vocabulary of the properties, stated apart from the handlers' code *)

IdsOf(rows) == {r.id : r \in rows}

AllWhiteSpace(s) == \A i \in 1..Len(s) : s[i] \in WhiteSpace

(* the body's title is missing, empty, or a string of whitespace only *)
BlankTitle(title) == title = Undefined \/ (IsString(title) /\ AllWhiteSpace(title.s))

(* t is s without its leading and trailing whitespace *)
IsTrimOf(t, s) ==
  /\ t # <<>>
  /\ t[1] \notin WhiteSpace
  /\ t[Len(t)] \notin WhiteSpace
  /\ \E i \in 1..Len(s) :
       /\ i + Len(t) - 1 <= Len(s)
       /\ t = SubSeq(s, i, i + Len(t) - 1)
       /\ \A k \in 1..Len(s) : (k < i \/ k > i + Len(t) - 1) => s[k] \in WhiteSpace

(* the column value a submitted JSON boolean or null stands for *)
AsStored(completed) ==
  IF completed = JBool(TRUE) THEN SqlTrue
  ELSE IF completed = JBool(FALSE) THEN SqlFalse
  ELSE SqlNull

(* the handler's statement reaches the database and the database executes it *)
StatementRuns == dbMode = "ok" /\ tableExists /\ ~PoolExhausted

(* the handler's statement is sent and the database fails it *)
StatementFails == (dbMode # "ok" \/ ~tableExists) /\ ~PoolExhausted

(* a listing of exactly the rows of the table *)
Lists(body, rows) ==
  /\ Len(body) = Cardinality(rows)
  /\ {body[i] : i \in 1..Len(body)} = rows

TableUntouched == UNCHANGED <<tableExists, todos, nextId>>

(* the step handles a request of the kind; its parameters are in last'.req *)
Listing == last'.kind = "list" /\ ListTodos
Creates == last'.kind = "create" /\ CreateTodo(last'.req.title)
Updates == last'.kind = "update" /\ UpdateTodo(last'.req.id, last'.req.completed)
Deletes == last'.kind = "delete" /\ DeleteTodo(last'.req.id)

ListShowsTable ==
  Listing /\ StatementRuns => last'.sent = <<200>> /\ Lists(last'.body, todos')

---------------------------------------------------------------------------
(* C1: a POST /api/todos whose title is missing, empty or only whitespace  *)
(* is answered 400 and leaves the table as it was, whatever the state of   *)
(* the table and of the database.                                          *)
C1_BlankTitleRejected ==
  [][Creates /\ BlankTitle(last'.req.title) =>
       last'.sent = <<400>> /\ TableUntouched]_vars

C1_Witness ==
  /\ last.kind = "create"
  /\ last.sent = <<400>>
  /\ last.req.title = JStr(<<"\t", " ">>)
  /\ todos # {}

(* C2: a POST /api/todos answered 201 adds exactly one row: completed is   *)
(* false, the title is the submitted title trimmed, the id is one no row   *)
(* had; and a GET /api/todos whose query the database executes answers 200 *)
(* with exactly the rows of the table, so the list after the POST is the   *)
(* list before it plus that row.                                           *)
C2_CreateThenList ==
  [][/\ Creates /\ last'.sent = <<201>> =>
          \E r \in todos' :
            /\ r \notin todos
            /\ todos' = todos \cup {r}
            /\ r.id \notin IdsOf(todos)
            /\ r.completed = SqlFalse
            /\ IsTrimOf(r.title, last'.req.title.s)
     /\ ListShowsTable]_vars

C2_Witness ==
  /\ last.kind = "list"
  /\ last.sent = <<200>>
  /\ Len(last.body) = 2
  /\ last.body[1].id = 2
  /\ last.body[1].title = <<"a", " ", "b">>
  /\ last.body[1].completed = SqlFalse
  /\ last.body[1].created_at > last.body[2].created_at

(* C3: a PUT /api/todos/:id carrying completed is answered 404 exactly     *)
(* when its UPDATE runs and no row has that id: a 404 means no row had the *)
(* id and the table is unchanged, an UPDATE that runs and finds no row is  *)
(* answered 404, and one that finds the row already holding the submitted  *)
(* value is answered 200.                                                  *)
C3_UpdateNotFound ==
  [][Updates /\ last'.req.completed # Undefined =>
       LET id == last'.req.id
           completed == last'.req.completed
       IN /\ last'.sent = <<404>> => id \notin IdsOf(todos) /\ TableUntouched
          /\ StatementRuns /\ id \notin IdsOf(todos) => last'.sent = <<404>>
          /\ (/\ StatementRuns
              /\ completed.type \in {"boolean", "null"}
              /\ \E r \in todos : r.id = id /\ r.completed = AsStored(completed))
               => last'.sent = <<200>>]_vars

C3_Witness ==
  /\ last.kind = "update"
  /\ last.sent = <<200>>
  /\ last.changedRows = 0

(* C4: a PUT /api/todos/:id answered 200 sets completed of the row with    *)
(* that id to the submitted value and changes nothing else: not that row's *)
(* id, title or created_at, no other row, not the set of rows; a GET that  *)
(* follows lists the table with the new value.  A PUT without completed is *)
(* answered 400 and leaves the table unchanged.                            *)
C4_UpdateFrame ==
  [][/\ Updates =>
          /\ last'.sent = <<200>> =>
               \E r \in todos :
                 /\ r.id = last'.req.id
                 /\ todos' = (todos \ {r}) \cup
                      {[id |-> r.id, title |-> r.title, created_at |-> r.created_at,
                        completed |-> AsStored(last'.req.completed)]}
                 /\ UNCHANGED <<tableExists, nextId>>
          /\ last'.req.completed = Undefined => last'.sent = <<400>> /\ TableUntouched
     /\ Listing /\ last'.sent = <<200>> => Lists(last'.body, todos')]_vars

C4_Witness ==
  /\ last.kind = "update"
  /\ last.sent = <<200>>
  /\ last.changedRows = 1
  /\ Cardinality(todos) = 2
  /\ \E r \in todos : r.id = last.req.id /\ r.completed = SqlTrue /\ r.created_at = 0 /\ clock = 1

(* C5: a DELETE /api/todos/:id whose statement runs is answered 404 with   *)
(* the table unchanged when no row has the id, and 200 with exactly that   *)
(* row removed when one has; an id that has left the table never comes     *)
(* back, whatever is created later; deleting again the id just deleted is  *)
(* answered 404.                                                           *)
C5_Delete ==
  [][/\ Deletes /\ StatementRuns =>
          LET id == last'.req.id
          IN /\ id \notin IdsOf(todos) => last'.sent = <<404>> /\ TableUntouched
             /\ id \in IdsOf(todos) =>
                  /\ last'.sent = <<200>>
                  /\ todos' = {r \in todos : r.id # id}
                  /\ Cardinality(todos') = Cardinality(todos) - 1
             /\ (last.kind = "delete" /\ last.sent = <<200>> /\ last.req.id = id)
                  => last'.sent = <<404>>
     /\ \A id \in 1..(nextId - 1) : id \notin IdsOf(todos) => id \notin IdsOf(todos')]_vars

C5_Witness ==
  /\ last.kind = "delete"
  /\ last.sent = <<404>>
  /\ last.req.id = 1
  /\ IdsOf(todos) = {2}

(* C6: whatever the state of the database and of initDB, GET /health is    *)
(* answered 200 and reads or changes nothing of the database; GET          *)
(* /dbactive is answered 503 whenever its probe fails and 200 only when    *)
(* its probe succeeded.                                                    *)
C6_Probes ==
  [][/\ Health => last'.sent = <<200>> /\ TableUntouched /\ UNCHANGED initVars
     /\ DbActive =>
          /\ (dbMode = "down" /\ ~PoolExhausted) => last'.sent = <<503>>
          /\ last'.sent = <<200>> => dbMode # "down"
          /\ last'.sent \in {<<200>>, <<503>>, <<>>}]_vars

C6_Witness ==
  /\ last.kind = "dbactive"
  /\ last.sent = <<503>>
  /\ ~tableExists
  /\ timers = 1

(* C7: when the statement of a list, create, update or delete handler      *)
(* fails (also because the table is not created yet), the request gets one *)
(* response, its status is 500, the table is unchanged and the process     *)
(* keeps running; 400 answers only a body that fails validation and 404    *)
(* only an update or delete of an id no row has.                           *)
C7_Answer500 ==
  last'.sent = <<500>> /\ TableUntouched /\ running'

C7_QueryFailure ==
  [][/\ (last'.kind = "list" /\ StatementFails /\ ListTodos) => C7_Answer500
     /\ (last'.kind = "list" /\ last'.sent \in {<<400>>, <<404>>}) => ~ListTodos
     /\ (/\ last'.kind = "create"
         /\ StatementFails
         /\ IsString(last'.req.title)
         /\ ~AllWhiteSpace(last'.req.title.s)
         /\ Creates) => C7_Answer500
     /\ (last'.kind = "create" /\ last'.sent = <<400>> /\ Creates)
          => (last'.req.title = Null \/ BlankTitle(last'.req.title))
     /\ (last'.kind = "create" /\ last'.sent = <<404>>) => ~Creates
     /\ (/\ last'.kind = "update"
         /\ StatementFails
         /\ last'.req.completed # Undefined
         /\ Updates) => C7_Answer500
     /\ (last'.kind = "update" /\ last'.sent = <<400>> /\ Updates)
          => last'.req.completed = Undefined
     /\ (last'.kind = "update" /\ last'.sent = <<404>> /\ Updates)
          => (StatementRuns /\ last'.req.id \notin IdsOf(todos))
     /\ (last'.kind = "delete" /\ StatementFails /\ Deletes) => C7_Answer500
     /\ (last'.kind = "delete" /\ last'.sent = <<404>> /\ Deletes)
          => (StatementRuns /\ last'.req.id \notin IdsOf(todos))
     /\ (last'.kind = "delete" /\ last'.sent = <<400>>) => ~Deletes]_vars

C7_Witness ==
  /\ last.kind = "create"
  /\ last.sent = <<500>>
  /\ last.req.title = JStr(<<" ", "a", "\t">>)
  /\ dbMode = "ok"
  /\ ~tableExists
  /\ running

(* C8 (as the code falls short of it): once the database stays reachable and *)
(* accepts the statement, initDB eventually creates the table.               *)
C8_TableEventuallyCreated == <>[](dbMode = "ok") => <>tableExists

(* C9: no two rows share an id, every title is non-empty and has no        *)
(* leading or trailing whitespace, and a row keeps its id and title from   *)
(* its creation to its deletion.                                           *)
C9_RowsWellFormed ==
  /\ \A r1, r2 \in todos : r1.id = r2.id => r1 = r2
  /\ \A r \in todos :
       /\ r.title # <<>>
       /\ r.title[1] \notin WhiteSpace
       /\ r.title[Len(r.title)] \notin WhiteSpace

C9_IdAndTitle ==
  /\ []C9_RowsWellFormed
  /\ [][\A r \in todos, q \in todos' : r.id = q.id => r.title = q.title]_vars

C9_Witness ==
  /\ Cardinality(todos) = 2
  /\ last.kind = "update"
  /\ last.sent = <<200>>
  /\ \E r \in todos : r.title = <<"a", " ", "b">> /\ r.completed = SqlTrue
  /\ \E r \in todos : r.title = <<"a">>

(* C10 (as the code falls short of it): completed of every row is true or  *)
(* false.                                                                  *)
C10_CompletedIsBoolean == \A r \in todos : r.completed \in {SqlTrue, SqlFalse}
=============================================================================
